---- MODULE Spec2Model ----
(***************************************************************************)
(* Model of the optimum interval method package of hps-exclusion:          *)
(*   largest_intervals_by_k, OptimumIntervalMethod.max_signal_strength_-   *)
(*   allowed (optimum_interval_method/_oim.py) and                         *)
(*   generate_max_interval_samples (optimum_interval_method/               *)
(*   _sample_generation.py), and the cache of the table: new, load,        *)
(*   load_or_new and the package-level max_signal_strenght_allowed         *)
(*   (optimum_interval_method/__init__.py).                                *)
(*                                                                         *)
(* Numbers.  A float in [0,1] is modelled in fixed point as an integer in  *)
(* 0..One (hundredths), so that 0.84 - 0.2 is 84 - 20.  A confidence is a  *)
(* count divided by n_trials_per_mu and is kept as an exact fraction       *)
(* [num, den]; comparisons of fractions cross-multiply.                    *)
(*                                                                         *)
(* Arrays.  A numpy array is a record [shape, val]: shape is the tuple of  *)
(* axis lengths and val maps every 0-based index tuple to its entry.       *)
(***************************************************************************)
EXTENDS Integers, Sequences, FiniteSets, TLC

VARIABLES
    gen,               \* arguments and random draws of the last table generation
    oim,               \* the OptimumIntervalMethod object in hand, or None
    data,              \* the data argument of the call in progress
    confidence_level,  \* the confidence_level argument of the call in progress
    ret,               \* what the last call computed and returned
    cache_file,        \* the file at __cache_location: whether it exists, its content
    oim_calculator,    \* the attribute _oim_calculator of the package-level function
    procs              \* concurrent callers: the operation and line each one is at

vars == <<gen, oim, data, confidence_level, ret, cache_file, oim_calculator, procs>>

\* the state of the cache and of the callers sharing it
cachevars == <<cache_file, oim_calculator, procs>>

(***************************************************************************)
(* Bounds of the model                                                     *)
(***************************************************************************)
\* longest last axis (number of events M) of a data array
MaxM == 3
\* largest number of instances in a batched (2-D) data array
MaxBatch == 2

(***************************************************************************)
(* Numbers                                                                 *)
(***************************************************************************)
\* the float 1.0 (upper edge of the unit interval) in hundredths
One == 100

\* np.nan: a value outside the number range; arithmetic with it yields it
NaN == 0 - (One * One)

\* no object / nothing returned yet
None == [op |-> "none"]

\* no file at __cache_location
NoFile == [exists |-> FALSE, bytes |-> <<>>]

MaxOf(S) == CHOOSE x \in S : \A y \in S : y <= x

MinOf(S) == CHOOSE x \in S : \A y \in S : x <= y

Frac(n, d) == [num |-> n, den |-> d]

\* a < b for fractions with positive denominators
FracLess(a, b) == a.num * b.den < b.num * a.den

FracEq(a, b) == a.num * b.den = b.num * a.den

\* the largest fraction of a non-empty set (np.max): its value
FracMax(S) == CHOOSE x \in S : \A y \in S : ~ FracLess(x, y)

(***************************************************************************)
(* Arrays                                                                  *)
(***************************************************************************)
RECURSIVE Indices(_)
\* all 0-based index tuples of an array of the given shape
Indices(shape) ==
    IF shape = <<>> THEN {<<>>}
    ELSE {<<i>> \o r : i \in 0..(shape[1] - 1), r \in Indices(Tail(shape))}

\* shape[:-1]
Lead(shape) == SubSeq(shape, 1, Len(shape) - 1)

\* shape[-1]
Last(shape) == shape[Len(shape)]

\* the indices selected by the slice a[start:] on an axis of length n
SliceFrom(n, start) ==
    LET s == IF start > n THEN n ELSE start
    IN  [j \in 1..(n - s) |-> s + j - 1]

\* the indices selected by the slice a[:-back] (back > 0) on an axis of length n
SliceDropLast(n, back) ==
    LET stop == IF n - back < 0 THEN 0 ELSE n - back
    IN  [j \in 1..stop |-> j - 1]

\* a 1-D array from a sequence
Arr1(s) == [shape |-> <<Len(s)>>, val |-> [ix \in Indices(<<Len(s)>>) |-> s[ix[1] + 1]]]

\* a 2-D array of shape (B, M) from B rows of length M
Arr2(rows, M) ==
    [shape |-> <<Len(rows), M>>,
     val   |-> [ix \in Indices(<<Len(rows), M>>) |-> rows[ix[1] + 1][ix[2] + 1]]]

\* instance l (an index tuple over the leading axes) of data, as a 1-D array
Instance(d, l) ==
    LET M == Last(d.shape)
    IN  [shape |-> <<M>>, val |-> [ix \in Indices(<<M>>) |-> d.val[l \o ix]]]

(***************************************************************************)
(* largest_intervals_by_k                                                  *)
(***************************************************************************)
\* the padding with the trailing edge left at its fill value 0.0
data_with_edges_NoUpperEdge(d) ==
    LET M   == Last(d.shape)
        shp == Lead(d.shape) \o <<M + 2>>
    IN  [shape |-> shp,
         val   |-> [ix \in Indices(shp) |->
                      LET e == ix[Len(ix)]
                      IN  IF e = M + 1 THEN 0
                          ELSE IF e >= 1 THEN d.val[Lead(ix) \o <<e - 1>>]
                          ELSE 0]]

\* data sorted ascending along the last axis before it is padded
data_with_edges_Sorted(d) ==
    LET M   == Last(d.shape)
        shp == Lead(d.shape) \o <<M + 2>>
    IN  [shape |-> shp,
         val   |-> [ix \in Indices(shp) |->
                      LET e   == ix[Len(ix)]
                          row == [j \in 1..M |-> d.val[Lead(ix) \o <<j - 1>>]]
                      IN  IF e = M + 1 THEN One
                          ELSE IF e >= 1
                          THEN CHOOSE v \in {row[j] : j \in 1..M} :
                                  /\ Cardinality({j \in 1..M : row[j] < v}) < e
                                  /\ e <= Cardinality({j \in 1..M : row[j] <= v})
                          ELSE 0]]

\* data padded on the last axis with the edges 0.0 and 1.0
data_with_edges(d) ==
    LET M   == Last(d.shape)
        shp == Lead(d.shape) \o <<M + 2>>
    IN  [shape |-> shp,
         val   |-> [ix \in Indices(shp) |->
                      LET e == ix[Len(ix)]
                      IN  IF e = M + 1 THEN One
                          ELSE IF e >= 1 THEN d.val[Lead(ix) \o <<e - 1>>]
                          ELSE 0]]

\* the intervals taken one edge too short: a[k:] - a[:-k] in place of k+1
largest_intervals_by_k_OffByOne(d) ==
    LET dwe == data_with_edges(d)
        n   == Last(dwe.shape)
        shp == <<Last(d.shape) + 1>> \o Lead(d.shape)
    IN  [shape |-> shp,
         val   |-> [ix \in Indices(shp) |->
                      LET k  == ix[1]
                          l  == Tail(ix)
                          hi == SliceFrom(n, IF k = 0 THEN 1 ELSE k)
                          lo == SliceDropLast(n, IF k = 0 THEN 1 ELSE k)
                      IN  MaxOf({dwe.val[l \o <<hi[j]>>] - dwe.val[l \o <<lo[j]>>]
                                   : j \in 1..Len(hi)})]]

\* the k axis put in place of the last axis instead of in front
largest_intervals_by_k_KLast(d) ==
    LET dwe == data_with_edges(d)
        n   == Last(dwe.shape)
        shp == Lead(d.shape) \o <<Last(d.shape) + 1>>
    IN  [shape |-> shp,
         val   |-> [ix \in Indices(shp) |->
                      LET k  == ix[Len(ix)]
                          l  == Lead(ix)
                          hi == SliceFrom(n, k + 1)
                          lo == SliceDropLast(n, k + 1)
                      IN  MaxOf({dwe.val[l \o <<hi[j]>>] - dwe.val[l \o <<lo[j]>>]
                                   : j \in 1..Len(hi)})]]

largest_intervals_by_k(d) ==
    LET dwe == data_with_edges(d)
        n   == Last(dwe.shape)
        shp == <<Last(d.shape) + 1>> \o Lead(d.shape)
    IN  [shape |-> shp,
         val   |-> [ix \in Indices(shp) |->
                      LET k  == ix[1]
                          l  == Tail(ix)
                          hi == SliceFrom(n, k + 1)
                          lo == SliceDropLast(n, k + 1)
                      IN  MaxOf({dwe.val[l \o <<hi[j]>>] - dwe.val[l \o <<lo[j]>>]
                                   : j \in 1..Len(hi)})]]

(***************************************************************************)
(* OptimumIntervalMethod.max_signal_strength_allowed                       *)
(***************************************************************************)
\* the dataclass: table[i_mu, k, i_trial], mu_values, k_values, n_trials_per_mu
OptimumIntervalMethod(table, mu_values, k_values, n_trials_per_mu) ==
    [table |-> table, mu_values |-> mu_values, k_values |-> k_values,
     n_trials_per_mu |-> n_trials_per_mu]

\* np.arange(n)
arange(n) == [shape |-> <<n>>, val |-> [ix \in Indices(<<n>>) |-> ix[1]]]

\* a grid of num signal strengths up to stop that leaves out 0.0
linspace_NoZero(stop, num) ==
    [shape |-> <<num>>,
     val   |-> [ix \in Indices(<<num>>) |-> ((ix[1] + 1) * stop) \div num]]

\* np.linspace(0.0, stop, num) on the integer scale of the signal strengths
linspace(stop, num) ==
    [shape |-> <<num>>,
     val   |-> [ix \in Indices(<<num>>) |->
                  IF num = 1 THEN 0 ELSE (ix[1] * stop) \div (num - 1)]]

\* the confidence array filled with 1.0 where the loops do not reach
confidence_FillOne(self, max_interval_by_k) ==
    LET shp   == <<self.table.shape[1]>> \o max_interval_by_k.shape
        kstop == IF self.table.shape[2] < max_interval_by_k.shape[1]
                 THEN self.table.shape[2] ELSE max_interval_by_k.shape[1]
    IN  [shape |-> shp,
         val   |-> [ix \in Indices(shp) |->
                      LET i_mu == ix[1]
                          k    == ix[2]
                          l    == SubSeq(ix, 3, Len(ix))
                      IN  IF k < kstop
                          THEN Frac(Cardinality({t \in 0..(self.table.shape[3] - 1) :
                                       self.table.val[<<i_mu, k, t>>]
                                           < max_interval_by_k.val[<<k>> \o l]}),
                                    self.n_trials_per_mu)
                          ELSE Frac(1, 1)]]

\* the comparison of the trials made with <= in place of <
confidence_LessEqual(self, max_interval_by_k) ==
    LET shp   == <<self.table.shape[1]>> \o max_interval_by_k.shape
        kstop == IF self.table.shape[2] < max_interval_by_k.shape[1]
                 THEN self.table.shape[2] ELSE max_interval_by_k.shape[1]
    IN  [shape |-> shp,
         val   |-> [ix \in Indices(shp) |->
                      LET i_mu == ix[1]
                          k    == ix[2]
                          l    == SubSeq(ix, 3, Len(ix))
                      IN  IF k < kstop
                          THEN Frac(Cardinality({t \in 0..(self.table.shape[3] - 1) :
                                       self.table.val[<<i_mu, k, t>>]
                                           <= max_interval_by_k.val[<<k>> \o l]}),
                                    self.n_trials_per_mu)
                          ELSE Frac(0, 1)]]

\* confidence[i_mu, k, ...]: 0.0 everywhere, then for every i_mu and every
\* k < min(table.shape[1], max_interval_by_k.shape[0]) the number of trials
\* of the table strictly below the observed interval, over n_trials_per_mu
confidence(self, max_interval_by_k) ==
    LET shp   == <<self.table.shape[1]>> \o max_interval_by_k.shape
        kstop == IF self.table.shape[2] < max_interval_by_k.shape[1]
                 THEN self.table.shape[2] ELSE max_interval_by_k.shape[1]
    IN  [shape |-> shp,
         val   |-> [ix \in Indices(shp) |->
                      LET i_mu == ix[1]
                          k    == ix[2]
                          l    == SubSeq(ix, 3, Len(ix))
                      IN  IF k < kstop
                          THEN Frac(Cardinality({t \in 0..(self.table.shape[3] - 1) :
                                       self.table.val[<<i_mu, k, t>>]
                                           < max_interval_by_k.val[<<k>> \o l]}),
                                    self.n_trials_per_mu)
                          ELSE Frac(0, 1)]]

\* the maximum taken over k and over the instances of the batch together
best_conf_over_k_AcrossBatch(conf) ==
    LET shp == <<conf.shape[1]>> \o SubSeq(conf.shape, 3, Len(conf.shape))
    IN  [shape |-> shp,
         val   |-> [ix \in Indices(shp) |->
                      FracMax({conf.val[jx] : jx \in {j \in DOMAIN conf.val : j[1] = ix[1]}})]]

\* np.max(confidence, axis=1)
best_conf_over_k(conf) ==
    LET shp == <<conf.shape[1]>> \o SubSeq(conf.shape, 3, Len(conf.shape))
    IN  [shape |-> shp,
         val   |-> [ix \in Indices(shp) |->
                      FracMax({conf.val[<<ix[1], k>> \o Tail(ix)]
                                 : k \in 0..(conf.shape[2] - 1)})]]

\* the threshold made inclusive: >= in place of >
i_mu_above_selection_Inclusive(best, level) ==
    [shape |-> best.shape,
     val   |-> [ix \in Indices(best.shape) |->
                  IF ~ FracLess(best.val[ix], level) THEN 1 ELSE 0]]

\* np.where(best_conf_over_k > confidence_level, 1, 0)
i_mu_above_selection(best, level) ==
    [shape |-> best.shape,
     val   |-> [ix \in Indices(best.shape) |->
                  IF FracLess(level, best.val[ix]) THEN 1 ELSE 0]]

\* the last index along axis 0 holding the maximum, in place of the first
argmax0_Last(sel) ==
    LET shp == Tail(sel.shape)
        n   == sel.shape[1]
    IN  [shape |-> shp,
         val   |-> [ix \in Indices(shp) |->
                      MaxOf({i \in 0..(n - 1) :
                               \A j \in 0..(n - 1) : sel.val[<<j>> \o ix] <= sel.val[<<i>> \o ix]})]]

\* np.argmax(sel, axis=0): the first index along axis 0 holding the maximum
argmax0(sel) ==
    LET shp == Tail(sel.shape)
        n   == sel.shape[1]
    IN  [shape |-> shp,
         val   |-> [ix \in Indices(shp) |->
                      MinOf({i \in 0..(n - 1) :
                               \A j \in 0..(n - 1) : sel.val[<<j>> \o ix] <= sel.val[<<i>> \o ix]})]]

\* mu_values[min_i_mu_above]
take(mu_values, index) ==
    [shape |-> index.shape,
     val   |-> [ix \in Indices(index.shape) |-> mu_values.val[<<index.val[ix]>>]]]

\* the call with its local arrays; it has no raise statement, so that the
\* call ends by returning min_mu_above ("raised" records the exception, none)
max_signal_strength_allowed(self, d, level) ==
    LET max_interval_by_k == largest_intervals_by_k(d)
        conf              == confidence(self, max_interval_by_k)
        best              == best_conf_over_k(conf)
        sel               == i_mu_above_selection(best, level)
        min_i_mu_above    == argmax0(sel)
    IN  [op                |-> "max_signal_strength_allowed",
         max_interval_by_k |-> max_interval_by_k,
         confidence        |-> conf,
         best_conf_over_k  |-> best,
         min_i_mu_above    |-> min_i_mu_above,
         raised            |-> "none",
         out               |-> take(self.mu_values, min_i_mu_above)]

(***************************************************************************)
(* generate_max_interval_samples                                           *)
(*                                                                         *)
(* The two random draws, np.random.poisson and np.random.random, are       *)
(* arguments of the operators: poisson[i_trial, i_mu] holds the event      *)
(* counts as drawn and random[i_event, i_mu, i_trial] the uniform numbers. *)
(***************************************************************************)
\* np.swapaxes(a, 0, 1)
swapaxes01(a) ==
    LET shp == <<a.shape[2], a.shape[1]>> \o SubSeq(a.shape, 3, Len(a.shape))
    IN  [shape |-> shp,
         val   |-> [ix \in Indices(shp) |->
                      a.val[<<ix[2], ix[1]>> \o SubSeq(ix, 3, Len(ix))]]]

\* np.max of an integer array
amax(a) == MaxOf({a.val[ix] : ix \in DOMAIN a.val})

\* a - b in floating point with np.nan
Sub(a, b) == IF a = NaN \/ b = NaN THEN NaN ELSE a - b

\* the order of np.sort: ascending, np.nan after every number
SortsBefore(a, b) == b = NaN \/ (a # NaN /\ a <= b)

RECURSIVE np_sort(_)
np_sort(s) ==
    IF s = <<>> THEN <<>>
    ELSE LET i == CHOOSE i \in 1..Len(s) : \A j \in 1..Len(s) : SortsBefore(s[i], s[j])
         IN  <<s[i]>> \o np_sort(SubSeq(s, 1, i - 1) \o SubSeq(s, i + 1, Len(s)))

\* us[np.greater.outer(np.arange(us.shape[0]), trial_counts)] = np.nan
mask_us(random, trial_counts) ==
    [shape |-> random.shape,
     val   |-> [ix \in Indices(random.shape) |->
                  IF ix[1] > trial_counts.val[Tail(ix)] THEN NaN ELSE random.val[ix]]]

\* np.sort(us, axis=0)
sort0(us) ==
    [shape |-> us.shape,
     val   |-> [ix \in Indices(us.shape) |->
                  np_sort([e \in 1..us.shape[1] |-> us.val[<<e - 1>> \o Tail(ix)]])[ix[1] + 1]]]

\* uswe: np.nan everywhere, then the sorted numbers between the edges, the
\* lower edge 0.0 at index 0 and the upper edge 1.0 at index trial_counts+1
with_edges(us, trial_counts) ==
    LET shp == <<us.shape[1] + 2>> \o Tail(us.shape)
    IN  [shape |-> shp,
         val   |-> [ix \in Indices(shp) |->
                      IF ix[1] = trial_counts.val[Tail(ix)] + 1 THEN One
                      ELSE IF ix[1] = 0 THEN 0
                      ELSE IF ix[1] <= us.shape[1] THEN us.val[<<ix[1] - 1>> \o Tail(ix)]
                      ELSE NaN]]

\* the loop over k: the largest uswe[j+k+1] - uswe[j] over the event index,
\* a difference that is np.nan counting as -1.0
max_interval_by_k_of(uswe, max_possible_k) ==
    LET shp == <<max_possible_k>> \o Tail(uswe.shape)
        n   == uswe.shape[1]
    IN  [shape |-> shp,
         val   |-> [ix \in Indices(shp) |->
                      LET k  == ix[1]
                          hi == SliceFrom(n, k + 1)
                          lo == SliceDropLast(n, k + 1)
                          interval_differences ==
                              [j \in 1..Len(hi) |->
                                  LET diff == Sub(uswe.val[<<hi[j]>> \o Tail(ix)],
                                                  uswe.val[<<lo[j]>> \o Tail(ix)])
                                  IN  IF diff = NaN THEN 0 - One ELSE diff]
                      IN  MaxOf({interval_differences[j] : j \in 1..Len(hi)})]]

\* the re-cast left out: an interval that does not exist stays -1.0
recast_Missing(max_interval_by_k) == max_interval_by_k

\* max_interval_by_k[max_interval_by_k < 0.0] = 1.0
recast(max_interval_by_k) ==
    [shape |-> max_interval_by_k.shape,
     val   |-> [ix \in Indices(max_interval_by_k.shape) |->
                  IF max_interval_by_k.val[ix] < 0 THEN One ELSE max_interval_by_k.val[ix]]]

\* the call with the largest count itself taken as the number of k
generate_max_interval_samples_KIsMaxCount(test_mu, n_trials_per_mu, poisson, random) ==
    LET trial_counts      == swapaxes01(poisson)
        us                == sort0(mask_us(random, trial_counts))
        uswe              == with_edges(us, trial_counts)
        max_possible_k    == amax(trial_counts)
        k_values          == arange(max_possible_k)
        max_interval_by_k == recast(max_interval_by_k_of(uswe, max_possible_k))
    IN  [op              |-> "generate_max_interval_samples",
         trial_counts    |-> trial_counts,
         uswe            |-> uswe,
         table           |-> swapaxes01(max_interval_by_k),
         mu_values       |-> test_mu,
         k_values        |-> k_values,
         n_trials_per_mu |-> n_trials_per_mu]

\* the call with its local arrays, for the given random draws
generate_max_interval_samples(test_mu, n_trials_per_mu, poisson, random) ==
    LET trial_counts      == swapaxes01(poisson)
        us                == sort0(mask_us(random, trial_counts))
        uswe              == with_edges(us, trial_counts)
        max_possible_k    == amax(trial_counts) + 1
        k_values          == arange(max_possible_k)
        max_interval_by_k == recast(max_interval_by_k_of(uswe, max_possible_k))
    IN  [op              |-> "generate_max_interval_samples",
         trial_counts    |-> trial_counts,
         uswe            |-> uswe,
         table           |-> swapaxes01(max_interval_by_k),
         mu_values       |-> test_mu,
         k_values        |-> k_values,
         n_trials_per_mu |-> n_trials_per_mu]

(***************************************************************************)
(* Inputs                                                                  *)
(***************************************************************************)
\* event positions a data array may hold (hundredths of the unit interval)
DataVals == {0, 10, 20, 84}

RECURSIVE SortedSeqs(_, _)
\* the ascending sequences of length m over the values S
SortedSeqs(m, S) ==
    IF m = 0 THEN {<<>>}
    ELSE UNION {{<<x>> \o r : r \in {q \in SortedSeqs(m - 1, S) : q = <<>> \/ x <= q[1]}}
                  : x \in S}

\* a data array over the values S with M = m events on its last axis: 1-D
\* (b = 0, the one row) or a 2-D batch of b instances (the rows)
DataArray(b, m, rows) == IF b = 0 THEN Arr1(rows[1]) ELSE Arr2(rows, m)

\* the rows to choose for DataArray(b, m, rows)
DataRows(b, m, S) == [1..(IF b = 0 THEN 1 ELSE b) -> SortedSeqs(m, S)]

\* the rows of a 1-D array of m events over S that a caller left unsorted
UnsortedRows(m, S) ==
    {rows \in [1..1 -> [1..m -> S]] : \E j \in 1..(m - 1) : rows[1][j] > rows[1][j + 1]}

(***************************************************************************)
(* Specification of largest_intervals_by_k as a call on one input          *)
(***************************************************************************)
InitLik ==
    /\ gen = None
    /\ oim = None
    /\ \E m \in 0..MaxM : \E b \in 0..MaxBatch : \E rows \in DataRows(b, m, DataVals) :
          data = DataArray(b, m, rows)
    /\ confidence_level = None
    /\ ret = None
    /\ cache_file = NoFile
    /\ oim_calculator = None
    /\ procs = None

CallLargestIntervals ==
    /\ ret = None
    /\ ret' = [op |-> "largest_intervals_by_k", out |-> largest_intervals_by_k(data)]
    /\ UNCHANGED <<gen, oim, data, confidence_level>>
    /\ UNCHANGED cachevars

NextLik == CallLargestIntervals

SpecLik == InitLik /\ [][NextLik]_vars

(***************************************************************************)
(* Specification of max_signal_strength_allowed as a call on one table,    *)
(* one data array and one confidence level                                 *)
(***************************************************************************)
\* entries of a hand-made table: 0.8 and 1.0
TableVals == {80, One}

\* shapes (n_mu, n_k, n_trials) of the hand-made tables
TableShapes == {<<3, 1, 2>>, <<2, 2, 2>>}

\* the largest signal strength of the grid of a hand-made table
GridStop == 20

\* every table of these shapes over these entries, on an ascending grid
Tables ==
    UNION {{OptimumIntervalMethod([shape |-> shp, val |-> v],
                                  linspace(GridStop, shp[1]), arange(shp[2]), shp[3])
              : v \in [Indices(shp) -> TableVals]} : shp \in TableShapes}

\* event positions of the data handed to a query
QueryVals == {20, 84}

\* confidence levels: 0.5 and 0.999
Levels == {Frac(1, 2), Frac(999, 1000)}

InitQuery ==
    /\ gen = None
    /\ oim \in Tables
    \* up to as many events as the table has k, so that M + 1 goes beyond it
    /\ \E m \in 0..oim.table.shape[2] : \E b \in {0} \cup 2..MaxBatch :
          \E rows \in DataRows(b, m, QueryVals)
                       \cup (IF b = 0 THEN UnsortedRows(m, QueryVals) ELSE {}) :
              data = DataArray(b, m, rows)
    /\ confidence_level \in Levels
    /\ ret = None
    /\ cache_file = NoFile
    /\ oim_calculator = None
    /\ procs = None

CallMaxSignalStrengthAllowed ==
    /\ oim # None
    /\ ret = None
    /\ ret' = max_signal_strength_allowed(oim, data, confidence_level)
    /\ UNCHANGED <<gen, oim, data, confidence_level>>
    /\ UNCHANGED cachevars

NextQuery == CallMaxSignalStrengthAllowed

SpecQuery == InitQuery /\ [][NextQuery]_vars

(***************************************************************************)
(* Specification of the table generation followed by queries of the        *)
(* generated table                                                         *)
(***************************************************************************)
\* largest event count a Poisson draw yields
MaxCount == 2

\* number of signal strengths of a generated table
NTestMu == 2

\* number of trials per signal strength of a generated table
NTrials == 2

\* values of a draw of np.random.random, in [0, 1)
UVals == {25, 50}

\* event positions of the data handed to a query of a generated table
GenQueryVals == {0, 50, One}

\* confidence levels of a query of a generated table: the lowest and the default
GenLevels == {Frac(0, 1), Frac(9, 10)}

\* np.random.poisson(test_mu, size=(n, len(test_mu))): a mean of 0 yields 0
PoissonDraws(test_mu, n) ==
    {[shape |-> <<n, test_mu.shape[1]>>, val |-> v] :
        v \in {w \in [Indices(<<n, test_mu.shape[1]>>) -> 0..MaxCount] :
                 \A ix \in Indices(<<n, test_mu.shape[1]>>) :
                     test_mu.val[<<ix[2]>>] = 0 => w[ix] = 0}}

\* np.random.random(size=shp).  An entry that the generation overwrites with
\* np.nan before its first use (event index above the count of its trial) is
\* drawn as the smallest value only: what was drawn there is never read.
RandomDraws(shp, poisson) ==
    {[shape |-> shp, val |-> v] :
        v \in {w \in [Indices(shp) -> UVals] :
                 \A ix \in Indices(shp) :
                     ix[1] > poisson.val[<<ix[3], ix[2]>>] => w[ix] = MinOf(UVals)}}

InitGen ==
    /\ gen = None
    /\ oim = None
    /\ data = None
    /\ confidence_level = None
    /\ ret = None
    /\ cache_file = NoFile
    /\ oim_calculator = None
    /\ procs = None

\* generate_max_interval_samples(np.linspace(0.0, max_signal_strength,
\* n_test_mu), n_trials) and the object built from what it returns
Generate ==
    /\ oim = None
    /\ \E poisson \in PoissonDraws(linspace(GridStop, NTestMu), NTrials) :
         \E random \in RandomDraws(<<amax(poisson), NTestMu, NTrials>>, poisson) :
            LET g == generate_max_interval_samples(linspace(GridStop, NTestMu), NTrials,
                                                   poisson, random)
            IN  /\ gen' = [poisson |-> poisson, random |-> random,
                           trial_counts |-> g.trial_counts, uswe |-> g.uswe]
                /\ oim' = OptimumIntervalMethod(g.table, g.mu_values, g.k_values,
                                                g.n_trials_per_mu)
                /\ ret' = g
    /\ UNCHANGED <<data, confidence_level>>
    /\ UNCHANGED cachevars

\* a query of the generated table, with the default confidence level or with 0
QueryGenerated ==
    /\ oim # None
    /\ data = None
    /\ \E m \in 0..(MaxCount + 1) : \E rows \in DataRows(0, m, GenQueryVals) :
          \E level \in GenLevels :
              /\ data' = DataArray(0, m, rows)
              /\ confidence_level' = level
              /\ ret' = max_signal_strength_allowed(oim, DataArray(0, m, rows), level)
    /\ UNCHANGED <<gen, oim>>
    /\ UNCHANGED cachevars

NextGen == Generate \/ QueryGenerated

SpecGen == InitGen /\ [][NextGen]_vars

(***************************************************************************)
(* The cache: pickle, new, load, load_or_new and the package-level         *)
(* max_signal_strenght_allowed                                             *)
(*                                                                         *)
(* A pickle of an OptimumIntervalMethod is modelled as the stream of its   *)
(* numbers: for each array the number of axes, the axis lengths and the    *)
(* entries in C order, then n_trials_per_mu.  A stream that ends early     *)
(* does not load.                                                          *)
(***************************************************************************)
RECURSIVE Size(_)
\* number of entries of an array of the given shape
Size(shape) == IF shape = <<>> THEN 1 ELSE shape[1] * Size(Tail(shape))

RECURSIVE Offset(_, _)
\* position of the entry at ix in the C-order buffer of an array
Offset(ix, shape) ==
    IF ix = <<>> THEN 0
    ELSE ix[1] * Size(Tail(shape)) + Offset(Tail(ix), Tail(shape))

RECURSIVE OffsetF(_, _)
\* position of the entry at ix in Fortran order: the first axis runs fastest
OffsetF(ix, shape) ==
    IF ix = <<>> THEN 0
    ELSE ix[1] + shape[1] * OffsetF(Tail(ix), Tail(shape))

dump_array(a) ==
    <<Len(a.shape)>> \o a.shape \o
    [i \in 1..Size(a.shape) |->
        a.val[CHOOSE ix \in Indices(a.shape) : Offset(ix, a.shape) = i - 1]]

\* pickle.dump(oim, cache_file): the stream written
pickle_dump(obj) ==
    dump_array(obj.table) \o dump_array(obj.mu_values) \o dump_array(obj.k_values)
        \o <<obj.n_trials_per_mu>>

\* the array read back with its buffer taken in Fortran order
load_array_FortranOrder(b, pos) ==
    IF pos > Len(b) \/ pos < 1 THEN [ok |-> FALSE, arr |-> None, next |-> 0]
    ELSE IF b[pos] < 0 \/ pos + b[pos] > Len(b) THEN [ok |-> FALSE, arr |-> None, next |-> 0]
    ELSE LET ndim  == b[pos]
             shape == SubSeq(b, pos + 1, pos + ndim)
         IN  IF \E i \in 1..ndim : shape[i] < 0
             THEN [ok |-> FALSE, arr |-> None, next |-> 0]
             ELSE IF pos + ndim + Size(shape) > Len(b)
             THEN [ok |-> FALSE, arr |-> None, next |-> 0]
             ELSE [ok   |-> TRUE,
                   arr  |-> [shape |-> shape,
                             val   |-> [ix \in Indices(shape) |->
                                          b[pos + ndim + 1 + OffsetF(ix, shape)]]],
                   next |-> pos + ndim + Size(shape) + 1]

\* one array read from the stream b at position pos, and where the next starts
load_array(b, pos) ==
    IF pos > Len(b) \/ pos < 1 THEN [ok |-> FALSE, arr |-> None, next |-> 0]
    ELSE IF b[pos] < 0 \/ pos + b[pos] > Len(b) THEN [ok |-> FALSE, arr |-> None, next |-> 0]
    ELSE LET ndim  == b[pos]
             shape == SubSeq(b, pos + 1, pos + ndim)
         IN  IF \E i \in 1..ndim : shape[i] < 0
             THEN [ok |-> FALSE, arr |-> None, next |-> 0]
             ELSE IF pos + ndim + Size(shape) > Len(b)
             THEN [ok |-> FALSE, arr |-> None, next |-> 0]
             ELSE [ok   |-> TRUE,
                   arr  |-> [shape |-> shape,
                             val   |-> [ix \in Indices(shape) |->
                                          b[pos + ndim + 1 + Offset(ix, shape)]]],
                   next |-> pos + ndim + Size(shape) + 1]

\* pickle.load(cache_file): the object, or the exception of an empty or
\* truncated stream; what follows the object in the file is not read
pickle_load(b) ==
    IF b = <<>> THEN [raised |-> "EOFError", out |-> None]
    ELSE LET t == load_array(b, 1)
             m == load_array(b, t.next)
             k == load_array(b, m.next)
         IN  IF t.ok /\ m.ok /\ k.ok /\ k.next <= Len(b)
             THEN [raised |-> "none",
                   out    |-> OptimumIntervalMethod(t.arr, m.arr, k.arr, b[k.next])]
             ELSE [raised |-> "UnpicklingError", out |-> None]

\* new that always takes its default number of trials
new_DefaultTrials(max_signal_strength, n_test_mu, n_trials, poisson, random) ==
    LET mu_values == linspace(max_signal_strength, n_test_mu)
        g == generate_max_interval_samples(mu_values, n_trials, poisson, random)
    IN  OptimumIntervalMethod(g.table, g.mu_values, g.k_values, NTrials)

\* new(max_signal_strength, n_test_mu, n_trials): the object it builds, for
\* the given random draws
new(max_signal_strength, n_test_mu, n_trials, poisson, random) ==
    LET mu_values == linspace(max_signal_strength, n_test_mu)
        g == generate_max_interval_samples(mu_values, n_trials, poisson, random)
    IN  OptimumIntervalMethod(g.table, g.mu_values, g.k_values, g.n_trials_per_mu)

\* the file after new wrote it while nothing else touched it
written(obj) == [exists |-> TRUE, bytes |-> pickle_dump(obj)]

\* load() that answers a missing file with no object instead of an error
load_NoError(file) ==
    IF file.exists THEN pickle_load(file.bytes)
    ELSE [raised |-> "none", out |-> None]

\* load(): the object of the cache file, or ValueError when there is no file
load(file) ==
    IF file.exists THEN pickle_load(file.bytes)
    ELSE [raised |-> "ValueError", out |-> None]

\* load_or_new(**kwargs) that regenerates when the cached grid is not the one
\* the parameters ask for
load_or_new_ChecksParams(file, args, draw) ==
    IF load(file).raised = "ValueError"
       \/ (load(file).raised = "none"
           /\ load(file).out.mu_values # linspace(args[1], args[2]))
    THEN [path |-> "new", raised |-> "none",
          out  |-> new(args[1], args[2], args[3], draw[1], draw[2]),
          file |-> written(new(args[1], args[2], args[3], draw[1], draw[2]))]
    ELSE [path |-> "load", raised |-> load(file).raised, out |-> load(file).out,
          file |-> file]

\* load_or_new(**kwargs): load(), and new(**kwargs) on its ValueError; any
\* other exception of load() leaves the call.  args are the keyword arguments,
\* draw the random draws a generation would make.
load_or_new(file, args, draw) ==
    IF load(file).raised = "ValueError"
    THEN [path |-> "new", raised |-> "none",
          out  |-> new(args[1], args[2], args[3], draw[1], draw[2]),
          file |-> written(new(args[1], args[2], args[3], draw[1], draw[2]))]
    ELSE [path |-> "load", raised |-> load(file).raised, out |-> load(file).out,
          file |-> file]

\* the names bound in the namespace of the package module
ModuleNames ==
    {"pathlib", "pickle", "np", "_oim", "new", "load", "load_or_new",
     "max_signal_strenght_allowed"}

\* max_signal_strenght_allowed(*args, **kwargs): its body looks up the name
\* max_signal_strength_allowed, first of all in the test of line 119
max_signal_strenght_allowed(calculator, file, d, level) ==
    IF "max_signal_strength_allowed" \notin ModuleNames
    THEN [op |-> "max_signal_strenght_allowed", raised |-> "NameError", out |-> None,
          calculator |-> calculator]
    ELSE LET loaded == IF calculator = None THEN load(file)
                       ELSE [raised |-> "none", out |-> calculator]
         IN  IF loaded.raised # "none"
             THEN [op |-> "max_signal_strenght_allowed", raised |-> loaded.raised,
                   out |-> None, calculator |-> calculator]
             ELSE [op |-> "max_signal_strenght_allowed", raised |-> "none",
                   out |-> max_signal_strength_allowed(loaded.out, d, level).out,
                   calculator |-> loaded.out]

\* the names a caller uses for the package-level function
PackageNames == {"max_signal_strength_allowed", "max_signal_strenght_allowed"}

\* oim.<name>(d, level): the attribute lookup on the module, then the call
getattr_call(name, calculator, file, d, level) ==
    IF name \notin ModuleNames
    THEN [op |-> name, raised |-> "AttributeError", out |-> None,
          calculator |-> calculator]
    ELSE max_signal_strenght_allowed(calculator, file, d, level)

(***************************************************************************)
(* Specification of the cache used by one caller, one call after another   *)
(***************************************************************************)
\* the arguments (max_signal_strength, n_test_mu, n_trials) given to new
NewArgs == {<<GridStop, 1, 1>>, <<GridStop, 1, NTrials>>, <<GridStop, NTestMu, 1>>}

\* the draws of a call of new with these arguments, as <<poisson, random>>
Draws(args) ==
    UNION {{<<poisson, random>> :
              random \in RandomDraws(<<amax(poisson), args[2], args[3]>>, poisson)}
             : poisson \in PoissonDraws(linspace(args[1], args[2]), args[3])}

\* a table left in the cache by an earlier process: three signal strengths,
\* one trial each, no event drawn
PriorTable ==
    new(GridStop, 3, 1, [shape |-> <<1, 3>>, val |-> [ix \in Indices(<<1, 3>>) |-> 0]],
        [shape |-> <<0, 3, 1>>, val |-> <<>>])

\* the data handed to the package-level function
PackageData == {Arr1(<<>>), Arr1(<<50>>)}

Init ==
    /\ gen = None
    /\ oim = None
    /\ data = None
    /\ confidence_level = None
    /\ ret = None
    /\ cache_file \in {NoFile, written(PriorTable)}
    /\ oim_calculator = None
    /\ procs = None

\* what a generation leaves in gen
GenRecord(args, draw) ==
    LET g == generate_max_interval_samples(linspace(args[1], args[2]), args[3],
                                           draw[1], draw[2])
    IN  [poisson |-> draw[1], random |-> draw[2],
         trial_counts |-> g.trial_counts, uswe |-> g.uswe]

\* T = new(max_signal_strength, n_test_mu, n_trials)
New ==
    /\ \E args \in NewArgs : \E draw \in Draws(args) :
          LET obj == new(args[1], args[2], args[3], draw[1], draw[2])
          IN  /\ gen' = GenRecord(args, draw)
              /\ oim' = obj
              /\ cache_file' = written(obj)
              /\ ret' = [op |-> "new", args |-> args, raised |-> "none", out |-> obj]
    /\ UNCHANGED <<data, confidence_level, oim_calculator, procs>>

\* load()
Load ==
    /\ ret' = [op |-> "load", raised |-> load(cache_file).raised,
               out |-> load(cache_file).out]
    /\ UNCHANGED <<gen, oim, data, confidence_level, cache_file, oim_calculator, procs>>

\* T = load_or_new(**kwargs)
LoadOrNew ==
    /\ \E args \in NewArgs : \E draw \in Draws(args) :
          LET r == load_or_new(cache_file, args, draw)
          IN  /\ gen' = IF r.path = "new" THEN GenRecord(args, draw) ELSE gen
              /\ oim' = IF r.path = "new" THEN r.out ELSE oim
              /\ cache_file' = r.file
              /\ ret' = [op |-> "load_or_new", args |-> args, path |-> r.path,
                         raised |-> r.raised, out |-> r.out]
    /\ UNCHANGED <<data, confidence_level, oim_calculator, procs>>

\* oim.<name>(data) with the default confidence level, under the name the
\* module docstring gives and under the name the function is defined with
PackageCall ==
    /\ \E name \in PackageNames : \E d \in PackageData :
          LET r == getattr_call(name, oim_calculator, cache_file, d, Frac(9, 10))
          IN  /\ data' = d
              /\ confidence_level' = Frac(9, 10)
              /\ oim_calculator' = r.calculator
              /\ ret' = [op |-> "package", name |-> name, raised |-> r.raised,
                         out |-> r.out]
    /\ UNCHANGED <<gen, oim, cache_file, procs>>

Next == New \/ Load \/ LoadOrNew \/ PackageCall

Spec == Init /\ [][Next]_vars

(***************************************************************************)
(* Specification of callers that run at the same time on one cache file.   *)
(* Every caller is at one line of the function it is in; new writes the    *)
(* file in one or two pieces, at its own offset.  The older module-level   *)
(* function of src/__init__.py, which keeps its lookup table in an         *)
(* attribute of itself, is called "legacy" here.                           *)
(***************************************************************************)
Procs == {1, 2}

seqvars == <<gen, oim, data, confidence_level, ret, oim_calculator>>

\* the arguments given to new and load_or_new by the concurrent callers
ConcArgs == {<<GridStop, 1, 1>>, <<GridStop, 1, NTrials>>}

\* the file interval_ntrials_10000.p as _load_lookup_table returns it
LookupTable == [op |-> "interval_ntrials_10000.p"]

IdleProc == [pc |-> "idle", op |-> "none", obj |-> None, pos |-> 0, ret |-> None,
             read |-> FALSE]

\* the bytes after chunk was written at offset pos; a hole reads as zeros
Overwrite(bytes, pos, chunk) ==
    [i \in 1..MaxOf({Len(bytes), pos + Len(chunk)}) |->
        IF i > pos /\ i <= pos + Len(chunk) THEN chunk[i - pos]
        ELSE IF i <= Len(bytes) THEN bytes[i]
        ELSE 0]

\* the sizes of the next piece when rem numbers are left to write
WriteSizes(rem) == {rem, (rem + 1) \div 2}

Goto(p, rec) == procs' = [procs EXCEPT !.st[p] = rec]

InitConc ==
    /\ gen = None
    /\ oim = None
    /\ data = None
    /\ confidence_level = None
    /\ ret = None
    /\ cache_file \in {NoFile, written(PriorTable)}
    /\ oim_calculator = None
    /\ procs = [st |-> [p \in Procs |-> IdleProc], lut |-> None]

\* new(...) up to the object: lines 76 to 84
new_generate(p) ==
    /\ UNCHANGED seqvars
    /\ procs.st[p].pc = "idle"
    /\ \E args \in ConcArgs : \E draw \in Draws(args) :
          Goto(p, [IdleProc EXCEPT !.pc = "new_open", !.op = "new",
                      !.obj = new(args[1], args[2], args[3], draw[1], draw[2])])
    /\ UNCHANGED cache_file

\* open(__cache_location, 'wb'): the file exists and is empty
new_open(p) ==
    /\ UNCHANGED seqvars
    /\ procs.st[p].pc = "new_open"
    /\ cache_file' = [exists |-> TRUE, bytes |-> <<>>]
    /\ Goto(p, [procs.st[p] EXCEPT !.pc = "new_dump", !.pos = 0])

\* pickle.dump(oim, cache_file): the next piece reaches the file; after the
\* last one the file is closed and new returns
new_dump(p) ==
    /\ UNCHANGED seqvars
    /\ procs.st[p].pc = "new_dump"
    /\ LET me     == procs.st[p]
           stream == pickle_dump(me.obj)
       IN  \E n \in WriteSizes(Len(stream) - me.pos) :
              /\ cache_file' =
                    [exists |-> TRUE,
                     bytes  |-> Overwrite(cache_file.bytes, me.pos,
                                          SubSeq(stream, me.pos + 1, me.pos + n))]
              /\ IF me.pos + n = Len(stream)
                 THEN Goto(p, [IdleProc EXCEPT
                                  !.ret = [op |-> me.op, raised |-> "none", out |-> me.obj]])
                 ELSE Goto(p, [me EXCEPT !.pos = me.pos + n])

\* load() or load_or_new(...) is called
load_call(p) ==
    /\ UNCHANGED seqvars
    /\ procs.st[p].pc = "idle"
    /\ \E op \in {"load", "load_or_new"} :
          Goto(p, [IdleProc EXCEPT !.pc = "load_is_file", !.op = op])
    /\ UNCHANGED cache_file

\* if __cache_location.is_file(), and the ValueError of line 96, which
\* load_or_new answers with new(**kwargs)
load_is_file(p) ==
    /\ UNCHANGED seqvars
    /\ procs.st[p].pc = "load_is_file"
    /\ LET me == procs.st[p]
       IN  IF cache_file.exists
           THEN Goto(p, [me EXCEPT !.pc = "load_read"])
           ELSE IF me.op = "load"
           THEN Goto(p, [IdleProc EXCEPT
                            !.ret = [op |-> "load", raised |-> "ValueError", out |-> None]])
           ELSE \E args \in ConcArgs : \E draw \in Draws(args) :
                   Goto(p, [me EXCEPT !.pc = "new_open",
                               !.obj = new(args[1], args[2], args[3], draw[1], draw[2])])
    /\ UNCHANGED cache_file

\* open(__cache_location, 'rb') and pickle.load(cache_file); load_or_new
\* catches none of its exceptions
load_read(p) ==
    /\ UNCHANGED seqvars
    /\ procs.st[p].pc = "load_read"
    /\ LET me == procs.st[p]
           r  == pickle_load(cache_file.bytes)
       IN  Goto(p, [IdleProc EXCEPT
                       !.ret = [op |-> me.op, raised |-> r.raised, out |-> r.out]])
    /\ UNCHANGED cache_file

\* oim.max_signal_strenght_allowed(data)
package_call(p) ==
    /\ UNCHANGED seqvars
    /\ procs.st[p].pc = "idle"
    /\ \E d \in PackageData :
          LET r == max_signal_strenght_allowed(oim_calculator, cache_file, d, Frac(9, 10))
          IN  Goto(p, [IdleProc EXCEPT
                          !.ret = [op |-> "package", raised |-> r.raised, out |-> r.out]])
    /\ UNCHANGED cache_file

\* a call of the legacy function up to its test of the attribute
legacy_test(p) ==
    /\ UNCHANGED seqvars
    /\ procs.st[p].pc = "idle"
    /\ IF procs.lut = None
       THEN Goto(p, [IdleProc EXCEPT !.pc = "legacy_load", !.op = "legacy"])
       ELSE Goto(p, [IdleProc EXCEPT
                        !.ret = [op |-> "legacy", raised |-> "none", out |-> procs.lut]])
    /\ UNCHANGED cache_file

\* max_interval_trails_lut = _load_lookup_table(), and the rest of the call
legacy_load(p) ==
    /\ UNCHANGED seqvars
    /\ procs.st[p].pc = "legacy_load"
    /\ procs' = [procs EXCEPT
                    !.lut = LookupTable,
                    !.st[p] = [IdleProc EXCEPT
                                  !.read = TRUE,
                                  !.ret = [op |-> "legacy", raised |-> "none",
                                           out |-> LookupTable]]]
    /\ UNCHANGED cache_file

NextConc ==
    \E p \in Procs :
        \/ new_generate(p)
        \/ new_open(p)
        \/ new_dump(p)
        \/ load_call(p)
        \/ load_is_file(p)
        \/ load_read(p)
        \/ package_call(p)
        \/ legacy_test(p)
        \/ legacy_load(p)

SpecConc == InitConc /\ [][NextConc]_vars

(***************************************************************************)
(* Properties of largest_intervals_by_k                                    *)
(***************************************************************************)
LikReturned == ret.op = "largest_intervals_by_k"

\* edge i (0..M+1) of instance l of the data: 0.0, the M events, 1.0
Edge(l, i) ==
    IF i = 0 THEN 0
    ELSE IF i = Last(data.shape) + 1 THEN One
    ELSE data.val[l \o <<i - 1>>]

\* C1: for sorted input in [0,1] the value returned for k (0..M) is the
\* largest edge[i+k+1] - edge[i] over i in 0..M-k, edge being the input
\* padded with 0.0 and 1.0; [0.1, 0.2, 0.84] yields [0.64, 0.8, 0.9, 1.0].
C1_LargestIntervalIsMaxEdgeDifference ==
    LikReturned =>
        /\ \A l \in Indices(Lead(data.shape)) : \A k \in 0..Last(data.shape) :
              ret.out.val[<<k>> \o l] =
                  MaxOf({Edge(l, i + k + 1) - Edge(l, i) : i \in 0..(Last(data.shape) - k)})
        /\ (data = Arr1(<<10, 20, 84>>) => ret.out = Arr1(<<64, 80, 90, 100>>))

C1_Witness ==
    /\ LikReturned
    /\ data = Arr1(<<10, 20, 84>>)
    /\ ret.out = Arr1(<<64, 80, 90, 100>>)

\* C7: for zero events on the last axis (M = 0) the k axis of the result
\* has exactly one entry and every value returned is 1.0.
C7_EmptyDataGivesOne ==
    (LikReturned /\ Last(data.shape) = 0) =>
        /\ ret.out.shape[1] = 1
        /\ \A ix \in DOMAIN ret.out.val : ret.out.val[ix] = One

C7_Witness ==
    /\ LikReturned
    /\ data.shape = <<0>>
    /\ ret.out = Arr1(<<One>>)

\* C8 as claimed: the result has the shape of the input with the last axis
\* replaced by the k axis, (d1, ..., dn, M+1).
C8_KAxisLast ==
    LikReturned => ret.out.shape = Lead(data.shape) \o <<Last(data.shape) + 1>>

\* C8 amended: the result has M+1 values ordered by k and the k axis comes
\* first, followed by the leading axes of the input: (M+1, d1, ..., dn).
C8_KAxisFirst ==
    LikReturned =>
        /\ ret.out.shape = <<Last(data.shape) + 1>> \o Lead(data.shape)
        /\ DOMAIN ret.out.val = Indices(ret.out.shape)

C8_Witness ==
    /\ LikReturned
    /\ data.shape = <<2, 3>>
    /\ ret.out.shape = <<4, 2>>

(***************************************************************************)
(* Properties of max_signal_strength_allowed                               *)
(***************************************************************************)
QueryReturned == ret.op = "max_signal_strength_allowed"

\* the instances of the data: the index tuples over all axes but the last
Instances == Indices(Lead(data.shape))

\* the largest interval with k events of instance l, from the edges
Observed(l, k) ==
    MaxOf({Edge(l, i + k + 1) - Edge(l, i) : i \in 0..(Last(data.shape) - k)})

\* number of trials of the table at (i_mu, k) strictly below x
TrialsBelow(i_mu, k, x) ==
    Cardinality({t \in 0..(oim.table.shape[3] - 1) : oim.table.val[<<i_mu, k, t>>] < x})

\* best_confidence(mu) of instance l: the largest confidence(mu, k) over k
BestConfidence(i_mu, l) ==
    FracMax({ret.confidence.val[<<i_mu, k>> \o l] : k \in 0..Last(data.shape)})

\* the grid indices whose best confidence is strictly above the level
Clearing(l) ==
    {i \in 0..(oim.table.shape[1] - 1) : FracLess(confidence_level, BestConfidence(i, l))}

\* C2: if some grid mu has best_confidence(mu) > confidence_level, the value
\* returned for the instance is the smallest such mu of the ascending grid,
\* that is the one at the first such index; a mu whose best confidence
\* equals the level is not among them.
C2_SmallestMuAboveLevel ==
    QueryReturned =>
        \A l \in Instances :
            Clearing(l) # {} =>
                /\ ret.out.val[l] = oim.mu_values.val[<<MinOf(Clearing(l))>>]
                /\ ret.out.val[l] = MinOf({oim.mu_values.val[<<i>>] : i \in Clearing(l)})
                /\ ~ FracEq(BestConfidence(ret.min_i_mu_above.val[l], l), confidence_level)

\* index 0 equals the level (not selected), index 1 clears it, index 2 does not
C2_Witness ==
    /\ QueryReturned
    /\ data.shape = <<1>>
    /\ oim.table.shape[1] = 3
    /\ FracEq(BestConfidence(0, <<>>), confidence_level)
    /\ Clearing(<<>>) = {1}
    /\ ret.out.val[<<>>] = oim.mu_values.val[<<1>>]

\* C3: if no grid mu has best_confidence(mu) > confidence_level, the call
\* raises or reports "not found" for that instance, and does not return the
\* first entry of the grid.
C3_NotFoundIsReported ==
    QueryReturned =>
        \A l \in Instances :
            Clearing(l) = {} =>
                /\ ret.raised # "none"
                /\ ~ (ret.raised = "none" /\ ret.out.val[l] = oim.mu_values.val[<<0>>])

\* C4: for every mu index, every k below both the k axis of the table and
\* M + 1, and every instance, the confidence is the number of trials
\* table[mu, k, t] strictly below observed[k], divided by n_trials_per_mu.
C4_ConfidenceIsStrictFraction ==
    QueryReturned =>
        \A l \in Instances : \A i_mu \in 0..(oim.table.shape[1] - 1) :
            \A k \in 0..Last(data.shape) :
                k < oim.table.shape[2] =>
                    /\ ret.confidence.val[<<i_mu, k>> \o l].den = oim.n_trials_per_mu
                    /\ ret.confidence.val[<<i_mu, k>> \o l].num
                           = TrialsBelow(i_mu, k, Observed(l, k))

\* a trial equal to the observed interval (0.8) beside one below 1.0
C4_Witness ==
    /\ QueryReturned
    /\ data = Arr1(<<20>>)
    /\ oim.table.shape = <<2, 2, 2>>
    /\ oim.table.val[<<1, 0, 0>>] = 80
    /\ oim.table.val[<<1, 1, 0>>] = 80
    /\ oim.table.val[<<1, 1, 1>>] = One
    /\ ret.confidence.val[<<1, 0>>] = Frac(0, 2)
    /\ ret.confidence.val[<<1, 1>>] = Frac(1, 2)

\* C6: for a batch the result has the shape of the data without its last
\* axis, and the entry of every instance is the result of the call on that
\* instance alone with the same table and level.
C6_BatchIsInstancewise ==
    QueryReturned =>
        /\ ret.out.shape = Lead(data.shape)
        /\ DOMAIN ret.out.val = Instances
        /\ \A l \in Instances :
              ret.out.val[l] =
                  max_signal_strength_allowed(oim, Instance(data, l), confidence_level).out.val[<<>>]

\* a batch of two instances with different results
C6_Witness ==
    /\ QueryReturned
    /\ data.shape = <<2, 2>>
    /\ ret.out.shape = <<2>>
    /\ ret.out.val[<<0>>] # ret.out.val[<<1>>]

(***************************************************************************)
(* Properties of the generated table                                       *)
(***************************************************************************)
Generated == oim # None /\ gen # None

\* no trial of signal strength i_mu had k or more events, or the table has no k
NeverReached(i_mu, k) ==
    \/ k >= oim.table.shape[2]
    \/ \A t \in 0..(oim.table.shape[3] - 1) : gen.trial_counts.val[<<i_mu, t>>] < k

\* C5: for a (mu, k) the Monte Carlo never reached for that mu, the confidence
\* is exactly 0 for every data instance with values in [0,1], and the query
\* returns without raising.
C5_NeverReachedHasZeroConfidence ==
    (Generated /\ QueryReturned) =>
        /\ ret.raised = "none"
        /\ \A l \in Instances : \A i_mu \in 0..(oim.table.shape[1] - 1) :
              \A k \in 0..Last(data.shape) :
                  NeverReached(i_mu, k) =>
                      FracEq(ret.confidence.val[<<i_mu, k>> \o l], Frac(0, 1))

\* the data [0, 1, 1] has the observed interval 1.0 at k = 0 and has more
\* events than the table has k; mu index 0 never reached k = 1
C5_Witness ==
    /\ Generated
    /\ QueryReturned
    /\ data = Arr1(<<0, One, One>>)
    /\ oim.table.shape[2] = 2
    /\ NeverReached(0, 1)
    /\ ~ NeverReached(1, 1)
    /\ Observed(<<>>, 1) = One
    /\ ret.confidence.val[<<0, 1>>] = Frac(0, 2)
    /\ ret.confidence.val[<<1, 2>>] = Frac(0, 1)
    /\ FracLess(Frac(0, 1), ret.confidence.val[<<1, 0>>])

\* C9: in a generated table, the entry of a trial whose event count is below
\* k is exactly 1.0, and no entry is NaN or negative.
C9_MissingIntervalIsOne ==
    Generated =>
        \A ix \in DOMAIN oim.table.val :
            /\ gen.trial_counts.val[<<ix[1], ix[3]>>] < ix[2] => oim.table.val[ix] = One
            /\ oim.table.val[ix] # NaN
            /\ oim.table.val[ix] >= 0

\* at the second signal strength one trial has no event and one has two
C9_Witness ==
    /\ Generated
    /\ gen.trial_counts.val[<<1, 0>>] = 0
    /\ gen.trial_counts.val[<<1, 1>>] = 2
    /\ oim.table.val[<<1, 1, 0>>] = One
    /\ oim.table.val[<<1, 2, 0>>] = One
    /\ oim.table.val[<<1, 0, 1>>] < One
    /\ oim.table.val[<<1, 2, 1>>] = One

\* C10: a (mu, k) that no trial of that mu reached is marked absent in the
\* generated table: its entries are not the 1.0 that a reached (mu, k) holds.
C10_NeverReachedIsMarkedAbsent ==
    Generated =>
        \A i_mu \in 0..(oim.table.shape[1] - 1) : \A k \in 0..(oim.table.shape[2] - 1) :
            NeverReached(i_mu, k) =>
                \E t \in 0..(oim.table.shape[3] - 1) : oim.table.val[<<i_mu, k, t>>] # One


(***************************************************************************)
(* Properties of the cache: new, load, load_or_new                         *)
(***************************************************************************)
\* the object the cache file holds, None when there is none to read
Persisted(file) == IF file.exists THEN pickle_load(file.bytes).out ELSE None

\* C11: with no cache file load() raises ValueError, generates nothing and
\* creates no file; with a cache file it returns the persisted table and
\* leaves the file as it was.
C11_LoadFailsOrReturnsPersisted ==
    [][ret'.op = "load" =>
          /\ cache_file' = cache_file
          /\ gen' = gen
          /\ oim' = oim
          /\ (~cache_file.exists => ret'.raised = "ValueError" /\ ret'.out = None)
          /\ (cache_file.exists =>
                /\ ret'.raised = "none"
                /\ ret'.out # None
                /\ pickle_dump(ret'.out) = cache_file.bytes)]_vars

C11_Witness == ret.op = "load" /\ ret.raised = "ValueError" /\ ~cache_file.exists

\* C12: every new(max_signal_strength, n_test_mu, n_trials) builds the table
\* from its own parameters, with or without an earlier cache file, and the
\* cache file then holds exactly the object returned.
C12_NewGeneratesAndPersists ==
    [][ret'.op = "new" =>
          /\ ret'.raised = "none"
          /\ ret'.out.mu_values = linspace(ret'.args[1], ret'.args[2])
          /\ ret'.out.n_trials_per_mu = ret'.args[3]
          /\ ret'.out.table.shape[1] = ret'.args[2]
          /\ ret'.out.table.shape[3] = ret'.args[3]
          /\ ret'.out.table.shape[2] = amax(gen'.poisson) + 1
          /\ cache_file'.exists
          /\ Persisted(cache_file') = ret'.out]_vars

C12_Witness ==
    /\ ret.op = "new"
    /\ ret.out.mu_values # PriorTable.mu_values
    /\ Persisted(cache_file) = ret.out
    /\ ret.out.n_trials_per_mu = 1

\* C13: load_or_new(params) generates exactly when there is no cache file:
\* with a cache file it returns the persisted table whatever params say and
\* leaves the file alone, without one it returns a table made from params
\* and the file exists afterwards.
C13_LoadOrNewGeneratesIffMissing ==
    [][ret'.op = "load_or_new" =>
          /\ (ret'.path = "new") <=> ~cache_file.exists
          /\ (cache_file.exists =>
                /\ cache_file' = cache_file
                /\ gen' = gen
                /\ ret'.out = Persisted(cache_file))
          /\ (~cache_file.exists =>
                /\ cache_file'.exists
                /\ ret'.out.mu_values = linspace(ret'.args[1], ret'.args[2])
                /\ ret'.out.n_trials_per_mu = ret'.args[3]
                /\ Persisted(cache_file') = ret'.out)]_vars

C13_Witness ==
    /\ ret.op = "load_or_new"
    /\ ret.path = "load"
    /\ ret.out.mu_values # linspace(ret.args[1], ret.args[2])

\* C14: a load() after new returned T, with no new in between, returns an
\* object with the table, mu_values, k_values and n_trials_per_mu of T,
\* however many load() and load_or_new() calls came before it.
C14_RoundTrip ==
    (ret.op = "load" /\ oim # None) =>
        /\ ret.raised = "none"
        /\ ret.out.table = oim.table
        /\ ret.out.mu_values = oim.mu_values
        /\ ret.out.k_values = oim.k_values
        /\ ret.out.n_trials_per_mu = oim.n_trials_per_mu

C14_Witness ==
    /\ ret.op = "load"
    /\ oim # None
    /\ ret.out.table.shape[1] > 1
    /\ ret.out.table.shape[2] > 1

(***************************************************************************)
(* Properties of the package-level max_signal_strength_allowed             *)
(***************************************************************************)
\* C15: a table loaded or generated in the process is held as the singleton:
\* after a call of the package-level function with a cache file present the
\* table is in memory, and a call that finds it in memory keeps it.
C15_SingletonIsHeld ==
    /\ (ret.op = "package" /\ cache_file.exists) => oim_calculator # None
    /\ (ret.op = "package" /\ oim_calculator # None) => ret.raised = "none"

\* C16: with a table in the cache oim.max_signal_strength_allowed(data)
\* succeeds with the value of load().max_signal_strength_allowed(data); with
\* no table in the cache it fails with the ValueError of load().
C16_PackageCallIsLoadThenQuery ==
    ret.op = "package" =>
        IF cache_file.exists
        THEN /\ ret.raised = "none"
             /\ ret.out = max_signal_strength_allowed(Persisted(cache_file), data,
                                                      confidence_level).out
        ELSE ret.raised = "ValueError"

(***************************************************************************)
(* Properties of callers running at the same time                          *)
(***************************************************************************)
\* the objects a complete cache file can hold
CompleteRecords ==
    {PriorTable} \cup
    UNION {{new(args[1], args[2], args[3], draw[1], draw[2]) : draw \in Draws(args)}
             : args \in ConcArgs}

\* at most one caller read the lookup table in for the legacy function
ReadByOneCaller == Cardinality({p \in Procs : procs.st[p].read}) <= 1

\* C17: when several callers make the first request for the singleton table
\* at the same time, the table is read in by one of them only and every
\* caller gets its result from the initialized table.
C17_InitializedOnce ==
    /\ ReadByOneCaller
    /\ \A p \in Procs :
          procs.st[p].ret.op \in {"package", "legacy"} =>
              procs.st[p].ret.raised = "none" /\ procs.st[p].ret.out # None

\* C18: a load() or load_or_new() running while new() writes the cache file
\* sees no cache, the complete previous record or the complete new record,
\* never an empty or partly written file.
C18_LoadSeesCompleteRecord ==
    \A p \in Procs :
        procs.st[p].ret.op \in {"load", "load_or_new"} =>
            \/ procs.st[p].ret.op = "load" /\ procs.st[p].ret.raised = "ValueError"
            \/ procs.st[p].ret.raised = "none" /\ procs.st[p].ret.out \in CompleteRecords

(***************************************************************************)
(* Properties of the sample of one trial                                   *)
(***************************************************************************)
MuIndices == 0..(oim.table.shape[1] - 1)

TrialIndices == 0..(oim.table.shape[3] - 1)

\* the Poisson count of a trial
Count(i_mu, t) == gen.trial_counts.val[<<i_mu, t>>]

\* the draws at event index 0..c-1 of a trial with count c, sorted ascending
SortedSample(i_mu, t) ==
    np_sort([e \in 1..Count(i_mu, t) |-> gen.random.val[<<e - 1, i_mu, t>>]])

\* C21: for every (mu, trial) with count c the points between the edges 0 and
\* 1 are the c draws at event index 0..c-1 of that trial, sorted ascending;
\* no draw at event index c or above has a part in them.
C21_InteriorIsTheCountDraws ==
    Generated =>
        \A i_mu \in MuIndices : \A t \in TrialIndices :
            /\ gen.uswe.val[<<0, i_mu, t>>] = 0
            /\ gen.uswe.val[<<Count(i_mu, t) + 1, i_mu, t>>] = One
            /\ \A e \in 1..Count(i_mu, t) :
                  gen.uswe.val[<<e, i_mu, t>>] = SortedSample(i_mu, t)[e]

\* C22: for every (mu, trial) with count c and every k in 0..c the table
\* entry is what largest_intervals_by_k gives at k for the sorted sample of
\* the c points of that trial.
C22_TableIsLargestIntervalsOfSample ==
    Generated =>
        \A i_mu \in MuIndices : \A t \in TrialIndices : \A k \in 0..Count(i_mu, t) :
            oim.table.val[<<i_mu, k, t>>] =
                largest_intervals_by_k(Arr1(SortedSample(i_mu, t))).val[<<k>>]

(***************************************************************************)
(* Shape of the generated table                                            *)
(***************************************************************************)
\* one more than the largest count np.random.poisson gave
K == 1 + MaxOf({gen.poisson.val[ix] : ix \in DOMAIN gen.poisson.val})

\* C23: the generated table has shape (n_test_mu, K, n_trials_per_mu) and is
\* indexed [mu][k][trial], with K one more than the largest count drawn;
\* k_values is 0..K-1; every mu has the same number of trials; with every
\* count 0 the table has K = 1 and holds 1.0 only.
C23_TableShape ==
    Generated =>
        /\ oim.table.shape = <<NTestMu, K, NTrials>>
        /\ DOMAIN oim.table.val = Indices(<<NTestMu, K, NTrials>>)
        /\ oim.mu_values.shape = <<NTestMu>>
        /\ oim.k_values.shape = <<K>>
        /\ \A k \in 0..(K - 1) : oim.k_values.val[<<k>>] = k
        /\ oim.n_trials_per_mu = NTrials
        /\ \A i_mu \in 0..(NTestMu - 1) : \A t \in 0..(NTrials - 1) :
              /\ gen.poisson.val[<<t, i_mu>>] < K
              /\ oim.table.val[<<i_mu, gen.poisson.val[<<t, i_mu>>], t>>] = One
        /\ (K = 1 => \A ix \in DOMAIN oim.table.val : oim.table.val[ix] = One)

\* every count drawn is 0
C23_Witness ==
    /\ Generated
    /\ K = 1
    /\ oim.table.shape = <<NTestMu, 1, NTrials>>
    /\ oim.table.val[<<NTestMu - 1, 0, NTrials - 1>>] = One

(***************************************************************************)
(* What a query leaves alone                                               *)
(***************************************************************************)
\* C24: a call of max_signal_strength_allowed leaves the table, mu_values,
\* k_values and n_trials_per_mu of the object and the data array of the
\* caller as they were, and takes the data along the last axis in the order
\* given, unsorted data included.
C24_QueryReadsOnly ==
    [][ret'.op = "max_signal_strength_allowed" =>
          /\ oim'.table = oim.table
          /\ oim'.mu_values = oim.mu_values
          /\ oim'.k_values = oim.k_values
          /\ oim'.n_trials_per_mu = oim.n_trials_per_mu
          /\ data' = data
          /\ \A l \in Instances : \A k \in 0..Last(data.shape) :
                ret'.max_interval_by_k.val[<<k>> \o l] = Observed(l, k)]_vars

\* the data [0.84, 0.2] was handed over unsorted: the largest interval with
\* no event is 0.84, and would be 0.64 for the sorted data
C24_Witness ==
    /\ QueryReturned
    /\ data = Arr1(<<84, 20>>)
    /\ ret.max_interval_by_k.val[<<0>>] = 84
    /\ oim \in Tables

(***************************************************************************)
(* Queries of a generated table                                            *)
(***************************************************************************)
\* C25: in a table made by new the grid starts at mu = 0, where every trial
\* has count 0, so the best confidence at grid index 0 is 0 for every data
\* instance with values in [0,1]; for a confidence level of 0 or more the
\* query returns the first grid entry, mu = 0, exactly when no mu of the
\* grid clears the level.
C25_FirstGridEntryMeansNotFound ==
    (Generated /\ QueryReturned) =>
        /\ oim.mu_values.val[<<0>>] = 0
        /\ \A t \in TrialIndices : gen.poisson.val[<<t, 0>>] = 0
        /\ \A l \in Instances :
              /\ FracEq(BestConfidence(0, l), Frac(0, 1))
              /\ (ret.out.val[l] = oim.mu_values.val[<<0>>]) <=> (Clearing(l) = {})

\* a query at level 0 that a mu above 0 clears, and one that nothing clears
C25_Witness ==
    /\ Generated
    /\ QueryReturned
    /\ confidence_level = Frac(0, 1)
    /\ Clearing(<<>>) = {1}
    /\ ret.out.val[<<>>] = GridStop

\* C26: for data with M events and M below the k-dimension of the table, the
\* observed interval at k = M is 1.0 and confidence(mu, M) is the fraction of
\* the trials of mu whose count is strictly above M, all sampled points lying
\* strictly inside (0,1); a trial with count M or less holds 1.0 there and is
\* never counted.
C26_ConfidenceAtAllEvents ==
    (Generated /\ QueryReturned /\ Last(data.shape) < oim.table.shape[2]) =>
        LET M == Last(data.shape)
        IN  /\ Observed(<<>>, M) = One
            /\ \A i_mu \in MuIndices :
                  /\ FracEq(ret.confidence.val[<<i_mu, M>>],
                            Frac(Cardinality({t \in TrialIndices : Count(i_mu, t) > M}),
                                 oim.table.shape[3]))
                  /\ \A t \in TrialIndices :
                        Count(i_mu, t) <= M <=> oim.table.val[<<i_mu, M, t>>] = One

\* one event in the data; at the second signal strength one trial has one
\* event and the other has two, so the confidence at k = 1 is one half
C26_Witness ==
    /\ Generated
    /\ QueryReturned
    /\ Last(data.shape) = 1
    /\ Count(1, 0) = 1
    /\ Count(1, 1) = 2
    /\ FracEq(ret.confidence.val[<<1, 1>>], Frac(1, 2))

(***************************************************************************)
(* Order and range of the largest intervals                                *)
(***************************************************************************)
\* C27: for input sorted ascending along the last axis with values in [0,1],
\* the values of largest_intervals_by_k do not decrease with k, lie in [0,1],
\* and the value at k = M is exactly 1.0.
C27_IntervalsGrowWithK ==
    LikReturned =>
        \A l \in Indices(Lead(data.shape)) :
            /\ \A k \in 0..Last(data.shape) :
                  /\ 0 <= ret.out.val[<<k>> \o l]
                  /\ ret.out.val[<<k>> \o l] <= One
            /\ \A k \in 0..(Last(data.shape) - 1) :
                  ret.out.val[<<k>> \o l] <= ret.out.val[<<k + 1>> \o l]
            /\ ret.out.val[<<Last(data.shape)>> \o l] = One

\* a batch of two instances of three events, the second with intervals that
\* grow strictly from k = 0 to k = 3
C27_Witness ==
    /\ LikReturned
    /\ data.shape = <<2, 3>>
    /\ ret.out.val[<<0, 1>>] < ret.out.val[<<1, 1>>]
    /\ ret.out.val[<<1, 1>>] < ret.out.val[<<2, 1>>]
    /\ ret.out.val[<<2, 1>>] < ret.out.val[<<3, 1>>]
    /\ ret.out.val[<<3, 1>>] = One

(***************************************************************************)
(* The returned signal strength against the confidence level               *)
(***************************************************************************)
\* the lower thresholds c1 a returned value is compared with
LowerLevels == {Frac(0, 1), Frac(1, 4), Frac(1, 2)}

\* the value the same table and data give at another confidence level
AtLevel(c, l) == max_signal_strength_allowed(oim, data, c).out.val[l]

\* C28: for one table and data instance and thresholds c1 <= c2, if some mu
\* of the grid has a best confidence above c2 then the value returned at c1
\* is at most the value returned at c2; and every value returned is one of
\* the values of the grid.
C28_LowerLevelGivesLowerMu ==
    QueryReturned =>
        \A l \in Instances :
            /\ \E i \in 0..(oim.mu_values.shape[1] - 1) :
                  ret.out.val[l] = oim.mu_values.val[<<i>>]
            /\ \A c1 \in LowerLevels :
                  (~ FracLess(confidence_level, c1) /\ Clearing(l) # {}) =>
                      AtLevel(c1, l) <= ret.out.val[l]

\* at the level 0.5 the last signal strength is returned, at 0.25 a smaller one
C28_Witness ==
    /\ QueryReturned
    /\ confidence_level = Frac(1, 2)
    /\ data.shape = <<1>>
    /\ Clearing(<<>>) = {2}
    /\ ret.out.val[<<>>] = GridStop
    /\ AtLevel(Frac(1, 4), <<>>) < GridStop
    /\ AtLevel(Frac(1, 4), <<>>) > 0

(***************************************************************************)
(* Life of the cache file                                                  *)
(***************************************************************************)
\* C29: no call of new, load, load_or_new or the package-level function
\* removes the cache file: once it exists it exists ever after; and its
\* content changes only in a call of new or of load_or_new that found no
\* cache file.
C29_CacheFileIsNeverDeleted ==
    [][/\ cache_file.exists => cache_file'.exists
       /\ cache_file' # cache_file =>
             \/ ret'.op = "new"
             \/ ret'.op = "load_or_new" /\ ~ cache_file.exists]_vars

\* the file that a call of new wrote is still there, unchanged, after a call
\* of the package-level function
C29_Witness ==
    /\ ret.op = "package"
    /\ oim # None
    /\ cache_file = written(oim)

====
